---- MODULE Spec2Model ----
(***************************************************************************)
(* Model of setup.py of thermod-monitor-dbstats: get_version() scans the   *)
(* script file 'thermod-monitor-dbstats' for the first line that starts    *)
(* with __version__, executes that line in an empty namespace and returns  *)
(* the value bound to __version__; setup() is then called with it.         *)
(*                                                                         *)
(* Text is modelled as a sequence of lexical chunks ("tokens"): the marker *)
(* text __version__ is one chunk, the letters "info" are one chunk, every  *)
(* other chunk is a single character.                                      *)
(***************************************************************************)
EXTENDS Integers, Sequences, FiniteSets, TLC

VARIABLES
    fileExists,   \* environment: open('thermod-monitor-dbstats','rt') succeeds
    file,         \* environment: the lines of the script file, in file order
    pc,           \* position of the run of setup.py
    isOpen,       \* the file object `script` is open
    pos,          \* number of lines the iteration over `script` has delivered
    line,         \* the loop variable `line`
    version_str,  \* local of get_version
    main_ns,      \* local of get_version: the namespace given to exec
    error,        \* the exception that ended the run, or "none"
    result,       \* the value get_version returned
    setupVersion  \* the version= argument setup() was called with

vars == <<fileExists, file, pc, isOpen, pos, line, version_str, main_ns,
          error, result, setupVersion>>

-----------------------------------------------------------------------------
(* Bounds *)

\* most lines a script file has
MaxLines == 3
\* most chunks between the quotes of a generated version literal
MaxStrLen == 3

-----------------------------------------------------------------------------
(* Characters and values *)

MARK  == "__version__"
NL    == "\n"
QUOTE == "\""
BSL   == "\\"
SP    == " "
EQ    == "="
HASH  == "#"
DIGIT == "1"
DOT   == "."
INFO  == "info"
LETTER_N == "n"
\* characters a string can hold only through an escape sequence
SOH   == "chr(1)"
TAB   == "\t"
LETTER_I == "I"

\* Python values: None, str, int, float, and the builtins module
NoneVal == [type |-> "NoneType", val |-> <<>>]
StrVal(s) == [type |-> "str", val |-> s]
NumVal(t, s) == [type |-> t, val |-> s]
BuiltinsVal == [type |-> "module", val |-> <<>>]

\* the text of the encoding declaration, one chunk
CODING == "-*- coding: utf-8 -*-"

\* number of characters of a chunk
CharLen(t) == IF t = MARK THEN 11 ELSE IF t = INFO THEN 4 ELSE IF t = CODING THEN 21 ELSE 1

RECURSIVE CharOffset(_, _)
\* number of characters before chunk i of s
CharOffset(s, i) == IF i <= 1 THEN 0 ELSE CharOffset(s, i - 1) + CharLen(s[i - 1])

\* characters that may continue an identifier
IdChars == {MARK, INFO, LETTER_N, DIGIT}
\* characters that may start an identifier
IdStart == {MARK, INFO, LETTER_N}

\* a matching rule that accepts the marker only as a whole name at column zero
FindWholeName(s) ==
    IF Len(s) >= 1 /\ s[1] = MARK /\ (Len(s) = 1 \/ s[2] \notin IdChars) THEN 0 ELSE -1

\* a matching rule that accepts the marker anywhere in the line
FindAnywhere(s) == IF \E i \in 1..Len(s) : s[i] = MARK THEN 0 ELSE -1

\* line.find('__version__'): lowest character index of the marker, or -1
Find(s) ==
    IF \E i \in 1..Len(s) : s[i] = MARK
    THEN CharOffset(s, CHOOSE i \in 1..Len(s) :
                           s[i] = MARK /\ \A j \in 1..(i - 1) : s[j] # MARK)
    ELSE -1

\* '# -*- coding: utf-8 -*-\n{}'.format(line)
Preamble == <<HASH, SP, CODING, NL>>
Format(l) == Preamble \o l

-----------------------------------------------------------------------------
(* exec(version_str, main_ns): the Python fragment the script's lines use.  *)
(* A source is a sequence of lines; a line is blank, a comment, or one      *)
(* simple statement                                                         *)
(*     NAME                     (an expression statement)                   *)
(*     NAME == expr             (a comparison)                              *)
(*     NAME = expr              (a single-target assignment)                *)
(* where expr is a double-quoted one-line string literal, a decimal number  *)
(* or a name. Chained assignment, adjacent or triple-quoted literals and    *)
(* operators are outside the fragment.                                      *)

RECURSIVE SkipWs(_, _)
SkipWs(s, i) == IF i <= Len(s) /\ s[i] = SP THEN SkipWs(s, i + 1) ELSE i

RECURSIVE IdentEnd(_, _)
\* first index after the identifier that starts at i
IdentEnd(s, i) == IF i <= Len(s) /\ s[i] \in IdChars THEN IdentEnd(s, i + 1) ELSE i

RECURSIVE NumEnd(_, _)
\* first index after the run of digits and dots that starts at i
NumEnd(s, i) == IF i <= Len(s) /\ s[i] \in {DIGIT, DOT} THEN NumEnd(s, i + 1) ELSE i

\* only white space, a comment or the line end follows from index i
RestIsBlank(s, i) ==
    LET j == SkipWs(s, i)
    IN  j > Len(s) \/ s[j] = HASH \/ (s[j] = NL /\ j = Len(s))

\* number of consecutive octal digits from index i, at most 3
OctalRun(s, i) ==
    IF i + 2 <= Len(s) /\ s[i] = DIGIT /\ s[i + 1] = DIGIT /\ s[i + 2] = DIGIT THEN 3
    ELSE IF i + 1 <= Len(s) /\ s[i] = DIGIT /\ s[i + 1] = DIGIT THEN 2
    ELSE IF i <= Len(s) /\ s[i] = DIGIT THEN 1
    ELSE 0

\* the character with octal code 1, 11, 111
OctalChar(k) == IF k = 1 THEN SOH ELSE IF k = 2 THEN TAB ELSE LETTER_I

\* a string scan that takes the text up to the next quote and strips its
\* spaces
ScanStrStripped(s, i, acc) ==
    LET close == CHOOSE j \in i..(Len(s) + 1) :
                     (j = Len(s) + 1 \/ s[j] \in {QUOTE, NL})
                     /\ \A k \in i..(j - 1) : s[k] \notin {QUOTE, NL}
        NotSpace(c) == c # SP
    IN  [ok |-> close <= Len(s) /\ s[close] = QUOTE,
         val |-> acc \o SelectSeq(SubSeq(s, i, close - 1), NotSpace),
         next |-> close + 1]

RECURSIVE ScanStr(_, _, _)
\* the string literal whose opening quote is just before index i: its value
\* (escape sequences processed) and the index after its closing quote
ScanStr(s, i, acc) ==
    IF i > Len(s) \/ s[i] = NL THEN [ok |-> FALSE, val |-> acc, next |-> i]
    ELSE IF s[i] = QUOTE THEN [ok |-> TRUE, val |-> acc, next |-> i + 1]
    ELSE IF s[i] = BSL THEN
        IF i + 1 > Len(s) THEN [ok |-> FALSE, val |-> acc, next |-> i]
        ELSE IF s[i + 1] = NL THEN ScanStr(s, i + 2, acc)
        ELSE IF s[i + 1] = BSL THEN ScanStr(s, i + 2, Append(acc, BSL))
        ELSE IF s[i + 1] = QUOTE THEN ScanStr(s, i + 2, Append(acc, QUOTE))
        ELSE IF s[i + 1] = LETTER_N THEN ScanStr(s, i + 2, Append(acc, NL))
        ELSE IF s[i + 1] = DIGIT
             THEN ScanStr(s, i + 1 + OctalRun(s, i + 1),
                          Append(acc, OctalChar(OctalRun(s, i + 1))))
        ELSE ScanStr(s, i + 2, acc \o <<BSL, s[i + 1]>>)
    ELSE ScanStr(s, i + 1, Append(acc, s[i]))

\* expression at index i: [err, val]
ParseExpr(s, i) ==
    IF i > Len(s) THEN [err |-> "SyntaxError", val |-> NoneVal]
    ELSE IF s[i] = QUOTE THEN
        LET r == ScanStr(s, i + 1, <<>>)
        IN  IF r.ok /\ RestIsBlank(s, r.next)
            THEN [err |-> "none", val |-> StrVal(r.val)]
            ELSE [err |-> "SyntaxError", val |-> NoneVal]
    ELSE IF s[i] \in {DIGIT, DOT} THEN
        LET e == NumEnd(s, i)
            lit == SubSeq(s, i, e - 1)
            dots == Cardinality({k \in 1..Len(lit) : lit[k] = DOT})
        IN  IF ~RestIsBlank(s, e) \/ dots > 1 \/ dots = Len(lit)
            THEN [err |-> "SyntaxError", val |-> NoneVal]
            ELSE [err |-> "none",
                  val |-> NumVal(IF dots = 0 THEN "int" ELSE "float", lit)]
    ELSE IF s[i] \in IdStart THEN
        IF RestIsBlank(s, IdentEnd(s, i))
        THEN [err |-> "NameError", val |-> NoneVal]
        ELSE [err |-> "SyntaxError", val |-> NoneVal]
    ELSE [err |-> "SyntaxError", val |-> NoneVal]

\* one line of source: [err, binds], binds the set of bindings it makes
ExecLine(s) ==
    IF RestIsBlank(s, 1) THEN [err |-> "none", binds |-> {}]
    ELSE IF s[1] \notin IdStart THEN [err |-> "SyntaxError", binds |-> {}]
    ELSE
        LET e == IdentEnd(s, 1)
            name == SubSeq(s, 1, e - 1)
            j == SkipWs(s, e)
        IN  IF RestIsBlank(s, j) THEN [err |-> "NameError", binds |-> {}]
            ELSE IF s[j] # EQ THEN [err |-> "SyntaxError", binds |-> {}]
            ELSE IF j + 1 <= Len(s) /\ s[j + 1] = EQ THEN
                LET x == ParseExpr(s, SkipWs(s, j + 2))
                IN  [err |-> IF x.err = "SyntaxError" THEN "SyntaxError" ELSE "NameError",
                     binds |-> {}]
            ELSE
                LET x == ParseExpr(s, SkipWs(s, j + 1))
                IN  IF x.err # "none" THEN [err |-> x.err, binds |-> {}]
                    ELSE [err |-> "none", binds |-> {[name |-> name, value |-> x.val]}]

\* index of the first line end of a source text
FirstLineEnd(s) ==
    IF \E i \in 1..Len(s) : s[i] = NL
    THEN CHOOSE i \in 1..Len(s) : s[i] = NL /\ \A j \in 1..(i - 1) : s[j] # NL
    ELSE Len(s)

BuiltinsBinding == [name |-> <<"__builtins__">>, value |-> BuiltinsVal]

\* compile and run a source text of at most two lines in ns: [err, ns]. The
\* source is compiled as a whole before any of it runs.
ExecSource(text, ns) ==
    LET cut == FirstLineEnd(text)
        r1 == ExecLine(SubSeq(text, 1, cut))
        r2 == ExecLine(SubSeq(text, cut + 1, Len(text)))
    IN  IF "SyntaxError" \in {r1.err, r2.err} THEN [err |-> "SyntaxError", ns |-> ns]
        ELSE IF r1.err # "none" THEN [err |-> r1.err, ns |-> ns]
        ELSE IF r2.err # "none" THEN [err |-> r2.err, ns |-> ns \cup r1.binds]
        ELSE [err |-> "none", ns |-> ns \cup r1.binds \cup r2.binds]

\* an exec that takes a missing source for an empty one
ExecLenient(src, ns) ==
    IF src.type # "str" THEN [err |-> "none", ns |-> ns \cup {BuiltinsBinding}]
    ELSE ExecSource(src.val, ns \cup {BuiltinsBinding})

\* exec(src, ns): [err, ns]. exec puts __builtins__ into ns before it looks
\* at the source, and refuses a source that is not a string.
Exec(src, ns) ==
    IF src.type # "str" THEN [err |-> "TypeError", ns |-> ns \cup {BuiltinsBinding}]
    ELSE ExecSource(src.val, ns \cup {BuiltinsBinding})

\* main_ns[key]: the bound value, or the KeyError
Lookup(ns, key) ==
    IF \E b \in ns : b.name = key
    THEN [err |-> "none", val |-> (CHOOSE b \in ns : b.name = key).value]
    ELSE [err |-> "KeyError", val |-> NoneVal]

-----------------------------------------------------------------------------
(* The script files the runs read *)

\* the line  __version__ = "<body>"
VersionLine(body) == <<MARK, SP, EQ, SP, QUOTE>> \o body \o <<QUOTE, NL>>

\* #info
CommentLine == <<HASH, INFO, NL>>
\*  __version__ = "1"      (the marker after white space)
IndentedLine == <<SP>> \o VersionLine(<<DIGIT>>)
\* info = __version__       (the marker after other text)
UseLine == <<INFO, SP, EQ, SP, MARK, NL>>
\* __version__ = "1.1"
LineA == VersionLine(<<DIGIT, DOT, DIGIT>>)
\* __version__ = "1"
LineB == VersionLine(<<DIGIT>>)
\* __version__info = "1"
InfoLine == <<MARK, INFO, SP, EQ, SP, QUOTE, DIGIT, QUOTE, NL>>
\* __version__ = 1.1
NumberLine == <<MARK, SP, EQ, SP, DIGIT, DOT, DIGIT, NL>>
\* __version__ =
NoValueLine == <<MARK, SP, EQ, SP, NL>>
\* __version__
BareLine == <<MARK, NL>>

ScanLines == {CommentLine, IndentedLine, UseLine, LineA, LineB, InfoLine,
              NumberLine, NoValueLine, BareLine}

\* every file of at most MaxLines lines of ScanLines
ScanFiles == UNION {[1..n -> ScanLines] : n \in 0..MaxLines}

\* the characters between the quotes of a generated version literal
BodyChars == {DIGIT, DOT, SP, BSL, LETTER_N}
Bodies == UNION {[1..n -> BodyChars] : n \in 0..MaxStrLen}

\* files whose marker line is a generated version literal, alone or after a
\* comment line, and two files without a version
LitFiles == {<<VersionLine(b)>> : b \in Bodies}
            \cup {<<CommentLine, VersionLine(b)>> : b \in Bodies}
            \cup {<<>>, <<CommentLine, InfoLine>>}

NotCalled == [type |-> "NotCalled", val |-> <<>>]

-----------------------------------------------------------------------------
(* The run of setup.py *)

InitRun ==
    /\ fileExists \in BOOLEAN
    /\ pc = "start"
    /\ isOpen = FALSE
    /\ pos = 0
    /\ line = <<>>
    /\ version_str = NoneVal
    /\ main_ns = {}
    /\ error = "none"
    /\ result = NoneVal
    /\ setupVersion = NotCalled

Init == file \in ScanFiles /\ InitRun

InitLit == file \in LitFiles /\ InitRun

\* open(...) succeeds and the with block is entered
OpenOk ==
    /\ pc = "start"
    /\ fileExists
    /\ isOpen' = TRUE
    /\ pc' = "loop"
    /\ UNCHANGED <<fileExists, file, pos, line, version_str, main_ns, error,
                   result, setupVersion>>

\* an open whose failure is swallowed: the run goes on to exec
OpenFailIgnored ==
    /\ pc = "start"
    /\ ~fileExists
    /\ pc' = "exec"
    /\ UNCHANGED <<fileExists, file, isOpen, pos, line, version_str, main_ns,
                   error, result, setupVersion>>

\* open(...) raises; nothing in setup.py catches it
OpenFail ==
    /\ pc = "start"
    /\ ~fileExists
    /\ error' = "OSError"
    /\ pc' = "aborted"
    /\ UNCHANGED <<fileExists, file, isOpen, pos, line, version_str, main_ns,
                   result, setupVersion>>

\* for line in script: the iteration delivers the next line
NextLine ==
    /\ pc = "loop"
    /\ pos < Len(file)
    /\ line' = file[pos + 1]
    /\ pos' = pos + 1
    /\ pc' = "test"
    /\ UNCHANGED <<fileExists, file, isOpen, version_str, main_ns, error,
                   result, setupVersion>>

\* for line in script: reading the next line raises; the with statement
\* closes the file and the exception leaves get_version
ReadFail ==
    /\ pc = "loop"
    /\ pos < Len(file)
    /\ isOpen' = FALSE
    /\ error' = "ReadError"
    /\ pc' = "aborted"
    /\ UNCHANGED <<fileExists, file, pos, line, version_str, main_ns, result,
                   setupVersion>>

\* for line in script: the file is exhausted; the with statement closes it
EndOfFile ==
    /\ pc = "loop"
    /\ pos = Len(file)
    /\ isOpen' = FALSE
    /\ pc' = "exec"
    /\ UNCHANGED <<fileExists, file, pos, line, version_str, main_ns, error,
                   result, setupVersion>>

\* a match that records the line and goes on scanning
MatchNoBreak ==
    /\ pc = "test"
    /\ Find(line) = 0
    /\ version_str' = StrVal(Format(line))
    /\ pc' = "loop"
    /\ UNCHANGED <<fileExists, file, isOpen, pos, line, main_ns, error, result,
                   setupVersion>>

\* a match that leaves the loop without closing the file
MatchNoClose ==
    /\ pc = "test"
    /\ Find(line) = 0
    /\ version_str' = StrVal(Format(line))
    /\ pc' = "exec"
    /\ UNCHANGED <<fileExists, file, isOpen, pos, line, main_ns, error, result,
                   setupVersion>>

\* if line.find('__version__') == 0: version_str = ...; break
\* (the break leaves the with block, which closes the file)
Match ==
    /\ pc = "test"
    /\ Find(line) = 0
    /\ version_str' = StrVal(Format(line))
    /\ isOpen' = FALSE
    /\ pc' = "exec"
    /\ UNCHANGED <<fileExists, file, pos, line, main_ns, error, result,
                   setupVersion>>

\* if line.find('__version__') == 0 is false: next iteration
Skip ==
    /\ pc = "test"
    /\ Find(line) # 0
    /\ pc' = "loop"
    /\ UNCHANGED <<fileExists, file, isOpen, pos, line, version_str, main_ns,
                   error, result, setupVersion>>

\* an exec step that, when the snippet fails, goes back to scanning
ExecStepRetry ==
    /\ pc = "exec"
    /\ LET r == Exec(version_str, main_ns)
       IN  /\ main_ns' = r.ns
           /\ pc' = IF r.err = "none" THEN "return"
                    ELSE IF pos < Len(file) THEN "loop" ELSE "aborted"
           /\ error' = IF r.err = "none" \/ pos < Len(file) THEN error ELSE r.err
    /\ UNCHANGED <<fileExists, file, isOpen, pos, line, version_str, result,
                   setupVersion>>

\* exec(version_str, main_ns); an exception leaves get_version
ExecStep ==
    /\ pc = "exec"
    /\ LET r == Exec(version_str, main_ns)
       IN  /\ main_ns' = r.ns
           /\ pc' = IF r.err = "none" THEN "return" ELSE "aborted"
           /\ error' = r.err
    /\ UNCHANGED <<fileExists, file, isOpen, pos, line, version_str, result,
                   setupVersion>>

\* a return that falls back to None when the key is missing
ReturnDefault ==
    /\ pc = "return"
    /\ result' = Lookup(main_ns, <<MARK>>).val
    /\ pc' = "setup"
    /\ UNCHANGED <<fileExists, file, isOpen, pos, line, version_str, main_ns,
                   error, setupVersion>>

\* return main_ns['__version__']; a KeyError leaves get_version
Return ==
    /\ pc = "return"
    /\ LET r == Lookup(main_ns, <<MARK>>)
       IN  /\ result' = r.val
           /\ pc' = IF r.err = "none" THEN "setup" ELSE "aborted"
           /\ error' = r.err
    /\ UNCHANGED <<fileExists, file, isOpen, pos, line, version_str, main_ns,
                   setupVersion>>

\* setup(name=..., version=get_version(), ...)
Setup ==
    /\ pc = "setup"
    /\ setupVersion' = result
    /\ pc' = "done"
    /\ UNCHANGED <<fileExists, file, isOpen, pos, line, version_str, main_ns,
                   error, result>>

Next ==
    \/ OpenOk
    \/ OpenFail
    \/ NextLine
    \/ ReadFail
    \/ EndOfFile
    \/ Match
    \/ Skip
    \/ ExecStep
    \/ Return
    \/ Setup

Spec == Init /\ [][Next]_vars

SpecLit == InitLit /\ [][Next]_vars

-----------------------------------------------------------------------------
(* Properties *)

\* the line begins with the marker text at column zero
BeginsWithMarker(l) == Len(l) >= 1 /\ l[1] = MARK
\* positions of the lines of the file that begin with the marker
MarkerIdx == {i \in 1..Len(file) : BeginsWithMarker(file[i])}
HasMarker == MarkerIdx # {}
\* position of the first such line
FirstIdx == CHOOSE i \in MarkerIdx : \A j \in MarkerIdx : i <= j
\* get_version has returned normally
Returned == pc \in {"setup", "done"}
\* the run ended on a failure to open or to read the file
EnvError == error \in {"OSError", "ReadError"}
\* the value a well-formed declaration line of ScanLines declares
Declared(l) ==
    IF l = LineA THEN StrVal(<<"1", ".", "1">>)
    ELSE IF l = LineB THEN StrVal(<<"1">>)
    ELSE IF l = NumberLine THEN NumVal("float", <<"1", ".", "1">>)
    ELSE NoneVal
\* marker lines that do not evaluate as an assignment
Malformed == {NoValueLine, BareLine}
Range(f) == {f[i] : i \in 1..Len(f)}

\* C1: in a file with two or more lines that begin with __version__, no line
\* after the first of them is ever read, and a value get_version returns is
\* the one the first of them declares.
C1_FirstMatchWins ==
    Cardinality(MarkerIdx) >= 2 =>
        /\ pos <= FirstIdx
        /\ Returned => result = Declared(file[FirstIdx])

C1_Witness ==
    /\ \E i, j \in MarkerIdx :
           i < j /\ i = FirstIdx /\ Declared(file[i]) # Declared(file[j])
                 /\ Declared(file[j]) # NoneVal
    /\ pc = "done"
    /\ pos = FirstIdx
    /\ result = Declared(file[FirstIdx])

\* C2: in a file without any line that begins with __version__, get_version
\* never returns and setup is never called: the scan reads every line, leaves
\* version_str None, and exec fails on it (TypeError), unless reading the file
\* itself failed first.
C2_NoMarkerFails ==
    ~HasMarker =>
        /\ pc \notin {"return", "setup", "done"}
        /\ result = NoneVal
        /\ setupVersion = NotCalled
        /\ version_str = NoneVal
        /\ pc = "exec" => pos = Len(file)
        /\ (pc = "aborted" /\ ~EnvError) => (error = "TypeError" /\ pos = Len(file))

C2_Witness ==
    /\ ~HasMarker
    /\ Len(file) >= 2
    /\ IndentedLine \in Range(file)
    /\ pc = "aborted"
    /\ error = "TypeError"
    /\ pos = Len(file)

\* C3: when the first line that begins with __version__ at column zero is at
\* position k and is a well-formed string declaration, the scan stops at k
\* with that line as the snippet (every earlier line was skipped, also those
\* that hold the marker after white space or other text), get_version returns
\* the value that line declares, and only a failure to open or read the file
\* aborts the run.
C3_MarkerAtAnyPosition ==
    \A k \in 1..Len(file) :
        (HasMarker /\ k = FirstIdx /\ file[k] \in {LineA, LineB}) =>
            /\ pc \in {"exec", "return", "setup", "done"} =>
                   (pos = k /\ version_str = StrVal(Format(file[k])))
            /\ Returned => result = Declared(file[k])
            /\ pc = "aborted" => EnvError

C3_Witness ==
    /\ HasMarker
    /\ FirstIdx >= 3
    /\ {IndentedLine, UseLine} \subseteq {file[i] : i \in 1..(FirstIdx - 1)}
    /\ file[FirstIdx] = LineA
    /\ pc = "done"
    /\ result = StrVal(<<"1", ".", "1">>)

\* C4 as stated: whenever get_version returns for a file whose marker line is
\* __version__ = "v", the value returned is the text v.
C4_RoundTripExact ==
    \A b \in Bodies :
        (Returned /\ HasMarker /\ file[FirstIdx] = VersionLine(b)) =>
            result = StrVal(b)

\* C4 amended: for a file whose marker line is __version__ = "v" with no
\* backslash in v, get_version returns the text v unchanged (spaces kept), and
\* only a failure to open or read the file aborts the run.
C4_RoundTripNoEscape ==
    \A b \in Bodies :
        (HasMarker /\ file[FirstIdx] = VersionLine(b) /\ BSL \notin Range(b)) =>
            /\ Returned => result = StrVal(b)
            /\ pc = "aborted" => EnvError

C4_Witness ==
    /\ Len(file) = 2
    /\ file[2] = VersionLine(<<SP, DIGIT, SP>>)
    /\ pc = "done"
    /\ result = StrVal(<<SP, DIGIT, SP>>)

\* C5: when the file cannot be opened the run aborts with the I/O error: no
\* line is read, nothing is executed, no value is returned and setup is not
\* called.
C5_OpenFailureAborts ==
    ~fileExists =>
        /\ pc \in {"start", "aborted"}
        /\ pc = "aborted" => error = "OSError"
        /\ pos = 0
        /\ ~isOpen
        /\ main_ns = {}
        /\ version_str = NoneVal
        /\ result = NoneVal
        /\ setupVersion = NotCalled

C5_Witness ==
    /\ ~fileExists
    /\ HasMarker
    /\ pc = "aborted"
    /\ error = "OSError"

\* C6: when the first line that begins with __version__ is malformed, the
\* run aborts with the evaluation error of that line: no later line is read,
\* no value is returned and setup is not called.
C6_MalformedAborts ==
    (HasMarker /\ file[FirstIdx] \in Malformed) =>
        /\ pc \notin {"return", "setup", "done"}
        /\ pos <= FirstIdx
        /\ result = NoneVal
        /\ setupVersion = NotCalled
        /\ (pc = "aborted" /\ ~EnvError) =>
               (error \in {"SyntaxError", "NameError"} /\ pos = FirstIdx)

C6_Witness ==
    /\ HasMarker
    /\ file[FirstIdx] = NoValueLine
    /\ \E j \in MarkerIdx : j > FirstIdx /\ file[j] \in {LineA, LineB}
    /\ pc = "aborted"
    /\ error = "SyntaxError"

\* C7: setup is reached only after get_version returned the value bound to
\* __version__ without an error, it is called with exactly that value, and a
\* run that ended on any failure never called setup.
C7_AllOrNothing ==
    /\ Returned =>
           (error = "none" /\ \E b \in main_ns : b.name = <<MARK>> /\ b.value = result)
    /\ pc = "done" => setupVersion = result
    /\ setupVersion # NotCalled => pc = "done"
    /\ error # "none" => (pc = "aborted" /\ setupVersion = NotCalled)
    /\ pc = "aborted" =>
           error \in {"OSError", "ReadError", "TypeError", "SyntaxError",
                      "NameError", "KeyError"}

C7_Witness ==
    /\ pc = "done"
    /\ setupVersion = result
    /\ result.type = "str"
    /\ error = "none"

\* C8 as stated: a value get_version returns is a string.
C8_ReturnedIsString == Returned => result.type = "str"

\* C9: the file is open exactly while the scan is inside the for loop: it is
\* closed when the snippet is executed, when get_version returns and when the
\* run is aborted.
C9_FileClosedOutsideScan == isOpen <=> pc \in {"loop", "test"}

C9_Witness ==
    /\ pc = "exec"
    /\ version_str # NoneVal
    /\ pos < Len(file)
    /\ ~isOpen

\* C10: when the first line that begins with __version__ binds another name
\* (__version__info), that line is the snippet; get_version fails with the
\* KeyError for __version__ and never returns the version a later line
\* declares.
C10_PrefixMatchOnly ==
    (HasMarker /\ file[FirstIdx] = InfoLine) =>
        /\ ~Returned
        /\ pos <= FirstIdx
        /\ result = NoneVal
        /\ setupVersion = NotCalled
        /\ pc \in {"exec", "return"} => version_str = StrVal(Format(InfoLine))
        /\ (pc = "aborted" /\ ~EnvError) => (error = "KeyError" /\ pos = FirstIdx)

C10_Witness ==
    /\ HasMarker
    /\ file[FirstIdx] = InfoLine
    /\ \E j \in MarkerIdx : j > FirstIdx /\ file[j] = LineA
    /\ pc = "aborted"
    /\ error = "KeyError"

====
